---- MODULE Spec2Model ----
(***************************************************************************)
(* A model of nhl_standings_bot.py: one run fetches the ESPN standings     *)
(* document, scans it for the four divisions, normalises and ranks the     *)
(* teams, compares the ranks with the persisted snapshot, overwrites the   *)
(* snapshot, renders the report and publishes it.                          *)
(*                                                                         *)
(* Values of the Python program are tagged records: None/null, bool, int,  *)
(* str, list and dict (a dict is the sequence of its <<key, value>> pairs  *)
(* in insertion order).  Strings are atomic; str.upper, str.lower, the     *)
(* substring test and the ordering of strings are tables over the strings  *)
(* that occur in the documents of the model.  Team names are written in    *)
(* Latin transliteration.                                                  *)
(***************************************************************************)
EXTENDS Integers, Sequences, FiniteSets, TLC

(***************************************************************************)
(* Python values                                                           *)
(***************************************************************************)
JNull == [t |-> "null"]
JBool(b) == [t |-> "bool", b |-> b]
JNum(n) == [t |-> "num", n |-> n]
JStr(s) == [t |-> "str", s |-> s]
JList(l) == [t |-> "list", l |-> l]
JObj(o) == [t |-> "obj", o |-> o]

IsObj(v) == v.t = "obj"
IsList(v) == v.t = "list"
IsStr(v) == v.t = "str"
IsNum(v) == v.t = "num"

\* bool(v): None, False, 0, "", [] and {} are falsy
Truthy(v) ==
    CASE v.t = "null" -> FALSE
      [] v.t = "bool" -> v.b
      [] v.t = "num" -> v.n # 0
      [] v.t = "str" -> v.s # ""
      [] v.t = "list" -> Len(v.l) > 0
      [] v.t = "obj" -> Len(v.o) > 0

\* a or b
Or(a, b) == IF Truthy(a) THEN a ELSE b

Keys(v) == {v.o[i][1] : i \in 1..Len(v.o)}

\* k in d
Has(v, k) == k \in Keys(v)

\* d.get(k): the value stored under k, None when k is no key of d
Get(v, k) ==
    IF Has(v, k)
    THEN v.o[CHOOSE i \in 1..Len(v.o) : v.o[i][1] = k][2]
    ELSE JNull

\* d[k] = x: replaces the value in place, or appends a new key
Put(v, k, x) ==
    IF Has(v, k)
    THEN JObj([i \in 1..Len(v.o) |-> IF v.o[i][1] = k THEN <<k, x>> ELSE v.o[i]])
    ELSE JObj(Append(v.o, <<k, x>>))

\* the outcome of a call: an exception, or a value
Raise == [raised |-> TRUE]
Ok(v) == [raised |-> FALSE, val |-> v]

(***************************************************************************)
(* Static tables                                                           *)
(***************************************************************************)
RU_BY_ABBR ==
    [BOS |-> "Boston Bruinz", BUF |-> "Buffalo Seibrz", DET |-> "Detroit Red Uingz",
     FLA |-> "Florida Panterz", MTL |-> "Monreal Kanadiens", OTT |-> "Ottava Senatorz",
     TBL |-> "Tampa-Bei Laitning", TOR |-> "Toronto Meipl Lifs",
     CAR |-> "Karolina Harrikeinz", CBJ |-> "Kolambus Blu Dzhekets",
     NJD |-> "Nyu-Dzhersi Devilz", NYI |-> "Nyu-York Ailenders",
     NYR |-> "Nyu-York Reindzhers", PHI |-> "Filadelfiya Flaierz",
     PIT |-> "Pittsburg Pingvinz", WSH |-> "Vashington Kepitalz",
     ARI |-> "Arizona Koyotis", CHI |-> "Chikago Blekhoks", COL |-> "Kolorado Evelansh",
     DAL |-> "Dallas Starz", MIN |-> "Minnesota Uaild", NSH |-> "Neshvill Predatorz",
     STL |-> "Sent-Luis Blyuz", WPG |-> "Vinnipeg Dzhets",
     UTH |-> "Yuta Mammots", UTA |-> "Yuta Mammots", UTAH |-> "Yuta Mammots",
     UHC |-> "Yuta Mammots",
     ANA |-> "Anaheim Daks", CGY |-> "Kalgari Fleimz", EDM |-> "Edmonton Oilerz",
     LAK |-> "Los-Andzheles Kingz", SEA |-> "Sietl Kraken", SJS |-> "San-Hose Sharks",
     VAN |-> "Vankuver Kenaks", VGK |-> "Vegas Golden Naits"]

VARIANT_TO_ESPN_ABBR == [TB |-> "TBL", LA |-> "LAK"]

DIV_RU ==
    [Atlantic |-> "Atlanticheskii divizion", Metropolitan |-> "Stolichnyi divizion",
     Central |-> "Tsentralnyi divizion", Pacific |-> "Tihookeanskii divizion"]

CONF_DIV_ORDER == [east |-> <<"Atlantic", "Metropolitan">>, west |-> <<"Central", "Pacific">>]

Divisions == <<"Atlantic", "Metropolitan", "Central", "Pacific">>
DivSet == {Divisions[i] : i \in 1..Len(Divisions)}

(***************************************************************************)
(* String operations, as tables over the strings of the model              *)
(***************************************************************************)
\* str.upper on the strings that are not upper case already
UpperTable ==
    [bos |-> "BOS", buf |-> "BUF", det |-> "DET", fla |-> "FLA", mtl |-> "MTL",
     ott |-> "OTT", tbl |-> "TBL", tor |-> "TOR", car |-> "CAR", cbj |-> "CBJ",
     njd |-> "NJD", nyi |-> "NYI", nyr |-> "NYR", phi |-> "PHI", pit |-> "PIT",
     wsh |-> "WSH", ari |-> "ARI", chi |-> "CHI", col |-> "COL", dal |-> "DAL",
     min |-> "MIN", nsh |-> "NSH", stl |-> "STL", wpg |-> "WPG", uth |-> "UTH",
     uta |-> "UTA", utah |-> "UTAH", uhc |-> "UHC", ana |-> "ANA", cgy |-> "CGY",
     edm |-> "EDM", lak |-> "LAK", sea |-> "SEA", sjs |-> "SJS", van |-> "VAN",
     vgk |-> "VGK", tb |-> "TB", la |-> "LA",
     Tb |-> "TB", La |-> "LA", Tbl |-> "TBL", Lak |-> "LAK", Uta |-> "UTA",
     Utah |-> "UTAH", Bos |-> "BOS"]
    @@ ("Boston Bruins" :> "BOSTON BRUINS")
    @@ ("Toronto Maple Leafs" :> "TORONTO MAPLE LEAFS")
    @@ ("Tampa Bay Lightning" :> "TAMPA BAY LIGHTNING")
    @@ ("Utah Mammoth" :> "UTAH MAMMOTH")
    @@ ("Colorado Avalanche" :> "COLORADO AVALANCHE")
    @@ ("New York Rangers" :> "NEW YORK RANGERS")
    @@ ("Pittsburgh Penguins" :> "PITTSBURGH PENGUINS")
    @@ ("Los Angeles Kings" :> "LOS ANGELES KINGS")
    @@ ("Vegas Golden Knights" :> "VEGAS GOLDEN KNIGHTS")

Upper(s) == IF s \in DOMAIN UpperTable THEN UpperTable[s] ELSE s

\* str.lower on the division names of the documents
LowerTable ==
    ("Atlantic Division" :> "atlantic division")
    @@ ("Metropolitan Division" :> "metropolitan division")
    @@ ("Central Division" :> "central division")
    @@ ("Pacific Division" :> "pacific division")
    @@ ("ATLANTIC" :> "atlantic") @@ ("Atlantic" :> "atlantic")
    @@ ("Metropolitan" :> "metropolitan") @@ ("Central" :> "central")
    @@ ("Pacific" :> "pacific") @@ ("PAC" :> "pac")
    @@ ("Eastern Conference" :> "eastern conference")
    @@ ("Western Conference" :> "western conference")
    @@ ("National Hockey League" :> "national hockey league")
    @@ ("Central Pacific" :> "central pacific")

Lower(s) == IF s \in DOMAIN LowerTable THEN LowerTable[s] ELSE s

\* k in lname, for the four division words k
Contains(lname, k) ==
    CASE k = "atlantic" -> lname \in {"atlantic division", "atlantic"}
      [] k = "metropolitan" -> lname \in {"metropolitan division", "metropolitan"}
      [] k = "central" -> lname \in {"central division", "central", "central pacific"}
      [] k = "pacific" -> lname \in {"pacific division", "pacific", "central pacific"}

\* the strings that team display names take, in the order of str's "<"
StrOrder ==
    <<"", "Boston Bruins", "Colorado Avalanche", "Los Angeles Kings", "New York Rangers",
      "Pittsburgh Penguins", "Tampa Bay Lightning", "Toronto Maple Leafs", "Utah Mammoth",
      "Vegas Golden Knights">>

StrIndex(s) == CHOOSE i \in 1..Len(StrOrder) : StrOrder[i] = s

StrLess(a, b) == StrIndex(a) < StrIndex(b)

\* int(s) of a str: the decimal literals of the model; any other str raises ValueError
IntLiterals == ("0" :> 0) @@ ("1" :> 1) @@ ("2" :> 2) @@ ("3" :> 3) @@ ("4" :> 4)

(***************************************************************************)
(* utilities                                                               *)
(***************************************************************************)
\* normalize_abbr on a str
normalize_abbr(abbr) ==
    LET a == Upper(abbr)
    IN  IF a \in DOMAIN VARIANT_TO_ESPN_ABBR THEN VARIANT_TO_ESPN_ABBR[a] ELSE a

\* int(v)
IntOf(v) ==
    CASE v.t = "num" -> Ok(v.n)
      [] v.t = "bool" -> Ok(IF v.b THEN 1 ELSE 0)
      [] v.t = "str" -> IF v.s \in DOMAIN IntLiterals THEN Ok(IntLiterals[v.s]) ELSE Raise
      [] OTHER -> Raise

\* arrow(delta_places): the glyph and the magnitude it prints
arrow(delta_places) ==
    IF delta_places.t = "null" THEN [glyph |-> "neutral", n |-> 0]
    ELSE IF delta_places.n > 0 THEN [glyph |-> "up", n |-> delta_places.n]
    ELSE IF delta_places.n < 0 THEN [glyph |-> "down", n |-> 0 - delta_places.n]
    ELSE [glyph |-> "neutral", n |-> 0]

(***************************************************************************)
(* Row Normalizer                                                          *)
(***************************************************************************)
\* name = s.get("name") or s.get("abbreviation") or s.get("shortDisplayName")
StatName(s) ==
    Or(Or(Get(s, "name"), Get(s, "abbreviation")), Get(s, "shortDisplayName"))

\* s.get("value", s.get("displayValue"))
StatValue(s) ==
    IF Has(s, "value") THEN Get(s, "value") ELSE Get(s, "displayValue")

\* if not name: continue; m[name] = value
StatPut(m, s, name) ==
    IF ~Truthy(name) THEN Ok(m)
    ELSE IF name.t \in {"list", "obj"} THEN Raise           \* unhashable key
    \* a key that is no str is never looked up: it is not kept
    ELSE IF ~IsStr(name) THEN Ok(m)
    ELSE Ok(Put(m, name.s, StatValue(s)))

\* the body of the loop of _stats_to_map for one element s
StatStep(m, s) ==
    IF ~IsObj(s) THEN Raise                                 \* s.get: AttributeError
    ELSE StatPut(m, s, StatName(s))

\* the loop of _stats_to_map over l[i..], m the dict built so far
RECURSIVE StatsLoop(_, _, _)
RECURSIVE StatsNext(_, _, _)
StatsLoop(l, i, m) ==
    IF i > Len(l) THEN Ok(m) ELSE StatsNext(l, i, StatStep(m, l[i]))

StatsNext(l, i, r) ==
    IF r.raised THEN Raise ELSE StatsLoop(l, i + 1, r.val)

\* _stats_to_map(stats_list): iterating a truthy value that is no list raises
\* (a number or True is not iterable; the characters of a str and the keys of
\* a dict have no .get)
_stats_to_map(stats_list) ==
    IF ~Truthy(stats_list) THEN Ok(JObj(<<>>))
    ELSE IF ~IsList(stats_list) THEN Raise
    ELSE StatsLoop(stats_list.l, 1, JObj(<<>>))

\* int(stats.get(a) or stats.get(b) or dflt)
StatInt(stats, a, b, dflt) == IntOf(Or(Or(Get(stats, a), Get(stats, b)), JNum(dflt)))

\* rows.append({...}) once pts is known
RowOfPoints(display, abbr, gp, w, l, ot, pts) ==
    IF pts.raised THEN Raise
    ELSE Ok([team |-> display, abbr |-> abbr, gp |-> gp, w |-> w, l |-> l, ot |-> ot,
             pts |-> pts.val])

\* pts = int(stats.get("points") or stats.get("pts") or (w*2 + ot))
RowOfCounts(display, abbr, stats, gp, w, l, ot) ==
    IF gp.raised \/ w.raised \/ l.raised \/ ot.raised THEN Raise
    ELSE RowOfPoints(display, abbr, gp.val, w.val, l.val, ot.val,
                     StatInt(stats, "points", "pts", w.val * 2 + ot.val))

\* gp, w, l and ot of the stats map
RowOfStats(display, abbr, sm) ==
    IF sm.raised THEN Raise
    ELSE RowOfCounts(display, abbr, sm.val,
                     StatInt(sm.val, "gamesPlayed", "gp", 0),
                     StatInt(sm.val, "wins", "wins", 0),
                     StatInt(sm.val, "losses", "losses", 0),
                     StatInt(sm.val, "otLosses", "otl", 0))

\* abbr = normalize_abbr(raw); stats = _stats_to_map(e.get("stats") or [])
RowOfAbbr(e, display, raw) ==
    IF ~IsStr(raw) THEN Raise                               \* (abbr or "").upper()
    ELSE RowOfStats(display, normalize_abbr(raw.s),
                    _stats_to_map(Or(Get(e, "stats"), JList(<<>>))))

\* team.get("abbreviation") or team.get("shortDisplayName") or display
RowOfDisplay(e, team, display) ==
    RowOfAbbr(e, display,
              Or(Or(Get(team, "abbreviation"), Get(team, "shortDisplayName")), display))

\* display = team.get("displayName") or team.get("name") or ""
RowOfTeam(e, team) ==
    IF ~IsObj(team) THEN Raise                              \* team.get: AttributeError
    ELSE RowOfDisplay(e, team, Or(Or(Get(team, "displayName"), Get(team, "name")), JStr("")))

\* the body of the loop of _entries_to_rows for one entry e
RowOf(e) ==
    IF ~IsObj(e) THEN Raise                                 \* e.get: AttributeError
    ELSE RowOfTeam(e, Or(Get(e, "team"), JObj(<<>>)))

\* the loop of _entries_to_rows over es[i..], rws the list built so far
RECURSIVE RowsLoop(_, _, _)
RECURSIVE RowsNext(_, _, _, _)
RowsLoop(es, i, rws) ==
    IF i > Len(es) THEN Ok(rws) ELSE RowsNext(es, i, rws, RowOf(es[i]))

RowsNext(es, i, rws, r) ==
    IF r.raised THEN Raise ELSE RowsLoop(es, i + 1, Append(rws, r.val))

(***************************************************************************)
(* Ranking                                                                 *)
(***************************************************************************)
\* x["team"] < y["team"] of two display names that "<" accepts
TeamLess(a, b) ==
    IF IsStr(a) /\ IsStr(b) THEN StrLess(a.s, b.s)
    ELSE IsNum(a) /\ IsNum(b) /\ a.n < b.n

\* a key without the wins: (-pts, team)
KeyLess_NoWins(a, b) ==
    \/ a.pts > b.pts
    \/ a.pts = b.pts /\ TeamLess(a.team, b.team)

\* key(a) < key(b) for key = (-pts, -w, team)
KeyLess(a, b) ==
    \/ a.pts > b.pts
    \/ a.pts = b.pts /\ a.w > b.w
    \/ a.pts = b.pts /\ a.w = b.w /\ TeamLess(a.team, b.team)

\* comparing the keys raises TypeError: same points and wins, and display
\* names that differ and are not two str or two numbers
KeyClash(a, b) ==
    /\ a.pts = b.pts /\ a.w = b.w /\ a.team # b.team
    /\ ~(IsStr(a.team) /\ IsStr(b.team))
    /\ ~(IsNum(a.team) /\ IsNum(b.team))

\* where a stable sort puts r in the sorted s: before the first element whose
\* key is greater, after every element whose key is not
InsertAt(s, r) ==
    IF \A j \in 1..Len(s) : ~KeyLess(r, s[j]) THEN Len(s) + 1
    ELSE CHOOSE j \in 1..Len(s) :
            KeyLess(r, s[j]) /\ \A k \in 1..(j - 1) : ~KeyLess(r, s[k])

InsertRowAt(s, r, p) == SubSeq(s, 1, p - 1) \o <<r>> \o SubSeq(s, p, Len(s))

InsertRow(s, r) == InsertRowAt(s, r, InsertAt(s, r))

RECURSIVE SortLoop(_, _, _)
SortLoop(rws, i, acc) ==
    IF i > Len(rws) THEN acc ELSE SortLoop(rws, i + 1, InsertRow(acc, rws[i]))

\* sorted(rws, key=lambda x: (-x["pts"], -x["w"], x["team"])): a stable sort
Sorted(rws) ==
    IF \E i, j \in 1..Len(rws) : KeyClash(rws[i], rws[j]) THEN Raise
    ELSE Ok(SortLoop(rws, 1, <<>>))

\* r["rank"] = i for i, r in enumerate(rws, 1)
Enumerate(s) ==
    [i \in 1..Len(s) |->
        [team |-> s[i].team, abbr |-> s[i].abbr, gp |-> s[i].gp, w |-> s[i].w,
         l |-> s[i].l, ot |-> s[i].ot, pts |-> s[i].pts, rank |-> i]]

\* the ranks, once rows.sort returned
RankRows(s) == IF s.raised THEN Raise ELSE Ok(Enumerate(s.val))

\* rows.sort, once the loop over the entries ended
SortRows(rws) == IF rws.raised THEN Raise ELSE RankRows(Sorted(rws.val))

_entries_to_rows(es) == SortRows(RowsLoop(es, 1, <<>>))

(***************************************************************************)
(* Trend inside a division                                                 *)
(***************************************************************************)
\* the delta with its sign turned: (i - y)
DeltaFlipped(y, i) ==
    CASE y.t = "null" -> Ok(JNull)
      [] y.t = "num" -> Ok(JNum(i - y.n))
      [] y.t = "bool" -> Ok(JNum(i - (IF y.b THEN 1 ELSE 0)))
      [] OTHER -> Raise

\* None if y is None else (y - i)
Delta(y, i) ==
    CASE y.t = "null" -> Ok(JNull)
      [] y.t = "num" -> Ok(JNum(y.n - i))
      [] y.t = "bool" -> Ok(JNum((IF y.b THEN 1 ELSE 0) - i))
      [] OTHER -> Raise                                  \* y - i: TypeError

\* r["rank"] = i; r["delta_places"] = d
TrendRow(r, i, d) ==
    [team |-> r.team, abbr |-> r.abbr, gp |-> r.gp, w |-> r.w, l |-> r.l, ot |-> r.ot,
     pts |-> r.pts, rank |-> i, delta_places |-> d]

\* y = y_positions.get(r["abbr"]) and the delta, for every position of s
Deltas(s, ymap) == [i \in 1..Len(s) |-> Delta(Get(ymap, s[i].abbr), i)]

AttachDeltas(s, d) ==
    IF \E i \in 1..Len(s) : d[i].raised THEN Raise
    ELSE Ok([i \in 1..Len(s) |-> TrendRow(s[i], i, d[i].val)])

\* the loop of attach_trend_div over the sorted s; ymap.get raises when ymap
\* is no dict, which an empty s never calls
AttachSorted(s, ymap) ==
    IF s.raised THEN Raise
    ELSE IF Len(s.val) > 0 /\ ~IsObj(ymap) THEN Raise
    ELSE AttachDeltas(s.val, Deltas(s.val, ymap))

attach_trend_div(rws, ymap) == AttachSorted(Sorted(rws), ymap)

(***************************************************************************)
(* Fetch Client and Tree Scanner                                           *)
(***************************************************************************)
\* _get_json on one response: a status other than 200, an exception of the
\* request and a body that does not parse all give {}
_get_json(resp) ==
    IF resp.kind = "json" THEN resp.body ELSE JObj(<<>>)

\* the division key of a lower-cased name, in the order the code tests them
DivisionKey(lname) ==
    IF Contains(lname, "atlantic") THEN "Atlantic"
    ELSE IF Contains(lname, "metropolitan") THEN "Metropolitan"
    ELSE IF Contains(lname, "central") THEN "Central"
    ELSE "Pacific"

\* node.values()
Values(node) == [i \in 1..Len(node.o) |-> node.o[i][2]]

\* node.get("name") or node.get("shortName") or node.get("abbreviation") or ""
NodeName(node) ==
    Or(Or(Or(Get(node, "name"), Get(node, "shortName")), Get(node, "abbreviation")),
       JStr(""))

\* any(k in lname for k in ("atlantic", "metropolitan", "central", "pacific"))
IsDiv(lname) ==
    \E k \in {"atlantic", "metropolitan", "central", "pacific"} : Contains(lname, k)

\* acc[key] = st["entries"] when the name matches and standings.entries is a
\* non-empty list
VisitFound(acc, lname, st) ==
    IF /\ IsDiv(lname) /\ IsObj(st)
       /\ IsList(Get(st, "entries")) /\ Truthy(Get(st, "entries"))
    THEN Put(acc, DivisionKey(lname), Get(st, "entries"))
    ELSE acc

VisitNamed(node, acc, name) ==
    IF ~IsStr(name) THEN Raise                              \* name.lower(): AttributeError
    ELSE Ok(VisitFound(acc, Lower(name.s), Get(node, "standings")))

\* what the scan records at one dict
Visit(node, acc) == VisitNamed(node, acc, NodeName(node))

\* _gather_division_entries(node, acc): a dict is visited, then its values are
\* walked; the elements of a list are walked; anything else is left alone
RECURSIVE _gather_division_entries(_, _)
RECURSIVE GatherEach(_, _, _)
RECURSIVE GatherValues(_, _)
_gather_division_entries(node, acc) ==
    IF IsObj(node) THEN GatherValues(node, Visit(node, acc))
    ELSE IF IsList(node) THEN GatherEach(node.l, 1, Ok(acc))
    ELSE Ok(acc)

\* for v in node.values(): _gather_division_entries(v, acc)
GatherValues(node, v) ==
    IF v.raised THEN Raise ELSE GatherEach(Values(node), 1, v)

\* for v in vs[i..]: _gather_division_entries(v, acc), r the outcome so far
GatherEach(vs, i, r) ==
    IF r.raised THEN Raise
    ELSE IF i > Len(vs) THEN r
    ELSE GatherEach(vs, i + 1, _gather_division_entries(vs[i], r.val))

\* "children" in doc
HasChildren(doc) ==
    CASE doc.t = "obj" -> Ok(Has(doc, "children"))
      [] doc.t = "list" -> Ok(\E i \in 1..Len(doc.l) : doc.l[i] = JStr("children"))
      [] doc.t = "str" -> Ok(doc.s = "children")        \* no other str of the model holds it
      [] OTHER -> Raise                                   \* not iterable: TypeError

\* for ch in children: _gather_division_entries(ch, divisions_raw)
ScanList(ch) ==
    CASE ch.t = "list" -> GatherEach(ch.l, 1, Ok(JObj(<<>>)))
      [] ch.t = "obj" -> Ok(JObj(<<>>))                   \* its keys are str: nothing matches
      [] ch.t = "str" -> Ok(JObj(<<>>))
      [] OTHER -> Raise                                   \* not iterable: TypeError

\* the second scan, over doc.get("children") or []
ScanChildren(doc) ==
    IF ~IsObj(doc) THEN Raise                               \* doc.get: AttributeError
    ELSE ScanList(Or(Get(doc, "children"), JList(<<>>)))

\* {k: _entries_to_rows(v) for k, v in divisions_raw.items()}
RECURSIVE DivRowsLoop(_, _, _)
RECURSIVE DivRowsNext(_, _, _, _)
DivRowsLoop(raw, i, acc) ==
    IF i > Len(raw.o) THEN Ok(acc)
    ELSE DivRowsNext(raw, i, acc, _entries_to_rows(raw.o[i][2].l))

DivRowsNext(raw, i, acc, r) ==
    IF r.raised THEN Raise
    ELSE DivRowsLoop(raw, i + 1, (raw.o[i][1] :> r.val) @@ acc)

\* d.get(k, []) of a dict of row lists
RowsOf(m, k) == IF k \in DOMAIN m THEN m[k] ELSE <<>>

NoData == [east |-> <<>>, west |-> <<>>]

\* if not divisions_raw and "children" in data: the second scan
ScanAgain(doc, g, hc) ==
    IF hc.raised THEN Raise
    ELSE IF hc.val THEN ScanChildren(doc) ELSE g

ScanFirst(doc, g) ==
    IF g.raised THEN Raise
    ELSE IF Truthy(g.val) THEN g
    ELSE ScanAgain(doc, g, HasChildren(doc))

\* the scan of the document, and the second scan when the first found nothing
\* and "children" in doc
ScanDocument(doc) == ScanFirst(doc, _gather_division_entries(doc, JObj(<<>>)))

\* east and west of div_rows
ByConference(div_rows) ==
    IF div_rows.raised THEN Raise
    ELSE Ok([east |-> [k \in {"Atlantic", "Metropolitan"} |-> RowsOf(div_rows.val, k)],
             west |-> [k \in {"Central", "Pacific"} |-> RowsOf(div_rows.val, k)]])

RowsOfScan(divisions_raw) ==
    IF divisions_raw.raised THEN Raise
    ELSE ByConference(DivRowsLoop(divisions_raw.val, 1, <<>>))

\* fetch_nhl_standings_by_division, doc being what the loop over the
\* candidates ended with
Standings(doc) ==
    IF ~Truthy(doc) THEN Ok(NoData) ELSE RowsOfScan(ScanDocument(doc))

\* the loop over the candidates: the first truthy _get_json, else the last one
FirstData(resps) ==
    IF \E i \in 1..Len(resps) : Truthy(_get_json(resps[i]))
    THEN _get_json(resps[CHOOSE i \in 1..Len(resps) :
                            /\ Truthy(_get_json(resps[i]))
                            /\ \A j \in 1..(i - 1) : ~Truthy(_get_json(resps[j]))])
    ELSE _get_json(resps[Len(resps)])


(***************************************************************************)
(* Snapshot Store                                                          *)
(***************************************************************************)
Dates == {[y |-> 2025, m |-> 1, d |-> 9], [y |-> 2025, m |-> 1, d |-> 10]}

\* today.isoformat()
isoformat(date) == IF date.d = 9 THEN "2025-01-09" ELSE "2025-01-10"

\* today.strftime(DATE_FMT)
strftime(date) == IF date.d = 9 THEN "09 Jan 2025" ELSE "10 Jan 2025"

Absent == [k |-> "absent"]
Unreadable == [k |-> "unreadable"]
Stored(j) == [k |-> "json", j |-> j]

EmptySnapshot == [date |-> JStr(""), divisions |-> JObj(<<>>)]

\* a loader that drops the date of the document
load_prev_positions_NoDate(f) ==
    IF f.k # "json" THEN EmptySnapshot
    ELSE IF ~IsObj(f.j) THEN EmptySnapshot
    ELSE [date |-> JStr(""), divisions |-> Or(Get(f.j, "divisions"), JObj(<<>>))]

\* load_prev_positions: a file that is missing, cannot be read or does not
\* parse, and a document that has no .get, give the empty snapshot
load_prev_positions(f) ==
    IF f.k # "json" THEN EmptySnapshot
    ELSE IF ~IsObj(f.j) THEN EmptySnapshot
    ELSE [date |-> Or(Get(f.j, "date"), JStr("")),
          divisions |-> Or(Get(f.j, "divisions"), JObj(<<>>))]

\* a rank map that counts the ranks from 0
RECURSIVE DivMapFrom0(_, _, _)
DivMapFrom0(rws, i, m) ==
    IF i > Len(rws) THEN m
    ELSE DivMapFrom0(rws, i + 1, Put(m, rws[i].abbr, JNum(rws[i].rank - 1)))

\* {r["abbr"]: r["rank"] for r in rws}
RECURSIVE DivMapLoop(_, _, _)
DivMapLoop(rws, i, m) ==
    IF i > Len(rws) THEN m
    ELSE DivMapLoop(rws, i + 1, Put(m, rws[i].abbr, JNum(rws[i].rank)))

DivMap_From0(rws) == DivMapFrom0(rws, 1, JObj(<<>>))

DivMap(rws) == DivMapLoop(rws, 1, JObj(<<>>))

\* save_current_as_prev(today, by_division): the document written
save_current_as_prev(date, by_division) ==
    Stored(JObj(<< <<"date", JStr(isoformat(date))>>,
                   <<"divisions",
                     JObj([i \in 1..Len(Divisions) |->
                             <<Divisions[i], DivMap(by_division[Divisions[i]])>>])>> >>))

(***************************************************************************)
(* Report Renderer                                                         *)
(***************************************************************************)
Blank == [kind |-> "blank"]

\* the lines of fmt_division(title, rws); no string of the model holds a
\* character that escape rewrites
TeamLine(r) ==
    [kind |-> "team", rank |-> r.rank, arrow |-> arrow(r.delta_places),
     name |-> IF r.abbr \in DOMAIN RU_BY_ABBR THEN RU_BY_ABBR[r.abbr] ELSE r.team.s,
     gp |-> r.gp, w |-> r.w, l |-> r.l, ot |-> r.ot, pts |-> r.pts]

RECURSIVE TeamLines(_, _)
TeamLines(rws, i) ==
    IF i > Len(rws) THEN <<>>
    ELSE <<TeamLine(rws[i])>>
         \o (IF rws[i].rank = 3 THEN <<[kind |-> "sep"]>> ELSE <<>>)
         \o TeamLines(rws, i + 1)

fmt_division(conf, d, rws) ==
    IF \E i \in 1..Len(rws) : rws[i].abbr \notin DOMAIN RU_BY_ABBR /\ ~IsStr(rws[i].team)
    THEN Raise                                            \* escape of a non-str
    ELSE Ok(<<[kind |-> "title", conf |-> conf, text |-> DIV_RU[d]]>> \o TeamLines(rws, 1))

\* "\n\n".join([head, east_block, "", west_block, "", info]) of the four blocks
JoinBlocks(date, a, m, c, p) ==
    IF a.raised \/ m.raised \/ c.raised \/ p.raised THEN Raise
    ELSE Ok(<<[kind |-> "head", date |-> strftime(date)], Blank>>
            \o a.val \o <<Blank>> \o m.val \o <<Blank, Blank, Blank>>
            \o c.val \o <<Blank>> \o p.val \o <<Blank, Blank, Blank>>
            \o <<[kind |-> "info"]>>)

\* the report of build_message
Report(date, by_division) ==
    JoinBlocks(date,
               fmt_division("east", "Atlantic", by_division["Atlantic"]),
               fmt_division("east", "Metropolitan", by_division["Metropolitan"]),
               fmt_division("west", "Central", by_division["Central"]),
               fmt_division("west", "Pacific", by_division["Pacific"]))

\* cur["east"] or cur["west"], by the conference of division d
Conference(c, d) == IF d \in {"Atlantic", "Metropolitan"} THEN c.east ELSE c.west

\* attach_trend_div(cur[conf].get(d, []), (prev["divisions"].get(d) or {}))
TrendOf(c, pv, d) ==
    attach_trend_div(RowsOf(Conference(c, d), d), Or(Get(pv.divisions, d), JObj(<<>>)))

\* all_divs = {**east_divs, **west_divs}
AllDivs(t) ==
    IF \E d \in DivSet : t[d].raised THEN Raise
    ELSE Ok([d \in DivSet |-> t[d].val])

\* the four attach_trend_div calls of build_message
Trend(c, pv) ==
    IF ~IsObj(pv.divisions) THEN Raise                      \* pv["divisions"].get
    ELSE AllDivs([d \in DivSet |-> TrendOf(c, pv, d)])

(***************************************************************************)
(* State                                                                   *)
(***************************************************************************)
VARIABLES
    pc,         \* the step the program is at
    \* the ranking functions on their own
    entries,    \* the raw entry list handed to _entries_to_rows
    rows,       \* what _entries_to_rows returned
    y_positions,\* the previous rank map handed to attach_trend_div
    ranked,     \* what attach_trend_div returned
    \* normalize_abbr on its own
    rawA, rawB, \* two raw abbreviations
    normA, normB,\* what normalize_abbr returned for them
    \* a run of the program
    run,        \* the number of the run
    today,      \* the date of the run
    allFailed,  \* no candidate URL answered 200 with a body that parses
    data,       \* the document the loop over the candidates ended with
    cur,        \* what fetch_nhl_standings_by_division returned
    prev,       \* what load_prev_positions returned
    divs,       \* all_divs of build_message
    file,       \* PREV_FILE
    msg,        \* the lines build_message returned
    sent,       \* the publish step: "none", "skipped", "ok" or "failed"
    failed,     \* the step whose exception ended the run, or "none"
    exit,       \* the exit status, once pc = "exit"
    savedIn,    \* the run that last wrote PREV_FILE, 0 for none
    tampered,   \* PREV_FILE was changed from outside since it was last written
    last        \* the run before this one: its document, and whether it saved

rankVars == <<entries, rows, y_positions, ranked>>
normVars == <<rawA, rawB, normA, normB>>
storeVars == <<today, divs, file, prev>>
procVars == <<run, allFailed, data, cur, msg, sent, failed, exit, savedIn, tampered, last>>
vars == <<pc, rankVars, normVars, storeVars, procVars>>

EmptyDivs == [d \in DivSet |-> <<>>]
NoLast == [data |-> JNull, saved |-> FALSE]

RankIdle ==
    /\ entries = <<>> /\ rows = Raise /\ y_positions = JObj(<<>>) /\ ranked = Raise

NormIdle == rawA = "" /\ rawB = "" /\ normA = "" /\ normB = ""

StoreIdle ==
    /\ today = CHOOSE d \in Dates : d.d = 9
    /\ divs = EmptyDivs /\ file = Absent /\ prev = EmptySnapshot

ProcIdle ==
    /\ run = 1 /\ allFailed = FALSE /\ data = JNull /\ cur = NoData /\ msg = <<>>
    /\ sent = "none" /\ failed = "none" /\ exit = 0 /\ savedIn = 0
    /\ tampered = FALSE /\ last = NoLast

(***************************************************************************)
(* The ranking functions on bounded inputs                                 *)
(***************************************************************************)
MaxEntries == 3

Stat(name, value) == JObj(<< <<"name", JStr(name)>>, <<"value", JNum(value)>> >>)

RankTeams ==
    { JObj(<< <<"displayName", JStr("Boston Bruins")>>, <<"abbreviation", JStr("BOS")>> >>),
      JObj(<< <<"displayName", JStr("Toronto Maple Leafs")>>, <<"abbreviation", JStr("TOR")>> >>),
      JObj(<< <<"name", JStr("Tampa Bay Lightning")>>, <<"abbreviation", JStr("tb")>> >>) }

RankStats ==
    { JList(<<Stat("wins", 1), Stat("points", 2)>>),
      JList(<<Stat("wins", 0), Stat("otLosses", 2)>>),
      JList(<<Stat("wins", 1), Stat("otl", 1), Stat("pts", 3)>>) }

RankEntries == {JObj(<< <<"team", t>>, <<"stats", s>> >>) : t \in RankTeams, s \in RankStats}

RankAbbrs == <<"BOS", "TOR", "TBL">>

\* the rank maps {abbr: rank} over RankAbbrs, None standing for an absent key
RankMaps ==
    {JObj(SelectSeq([i \in 1..Len(RankAbbrs) |-> <<RankAbbrs[i], f[i]>>],
                    LAMBDA p : p[2] # JNull)) :
        f \in [1..Len(RankAbbrs) -> {JNull} \cup {JNum(n) : n \in 1..Len(RankAbbrs)}]}

RankInit ==
    /\ pc = "entries"
    /\ entries \in UNION {[1..n -> RankEntries] : n \in 0..MaxEntries}
    /\ rows = Raise
    /\ y_positions = JObj(<<>>)
    /\ ranked = Raise
    /\ NormIdle /\ StoreIdle /\ ProcIdle

EntriesToRows ==
    /\ pc = "entries"
    /\ rows' = _entries_to_rows(entries)
    /\ pc' = "rows"
    /\ UNCHANGED <<entries, y_positions, ranked, normVars, storeVars, procVars>>

AttachTrend ==
    /\ pc = "rows"
    /\ ~rows.raised
    /\ \E y \in RankMaps :
        /\ y_positions' = y
        /\ ranked' = attach_trend_div(rows.val, y)
    /\ pc' = "ranked"
    /\ UNCHANGED <<entries, rows, normVars, storeVars, procVars>>

RankNext == EntriesToRows \/ AttachTrend

SpecRank == RankInit /\ [][RankNext]_vars

(***************************************************************************)
(* normalize_abbr on the abbreviations of the static tables                *)
(***************************************************************************)
\* the keys of the two tables, and their lower-case and capitalised spellings
RawAbbrs ==
    LET keys == DOMAIN RU_BY_ABBR \cup DOMAIN VARIANT_TO_ESPN_ABBR
    IN  keys \cup {s \in DOMAIN UpperTable : UpperTable[s] \in keys}

\* the display name the tables give a raw abbreviation
TeamOf(raw) == RU_BY_ABBR[normalize_abbr(raw)]

NormInit ==
    /\ pc = "raw"
    /\ rawA \in RawAbbrs /\ rawB \in RawAbbrs
    /\ normA = "" /\ normB = ""
    /\ RankIdle /\ StoreIdle /\ ProcIdle

Normalize ==
    /\ pc = "raw"
    /\ normA' = normalize_abbr(rawA)
    /\ normB' = normalize_abbr(rawB)
    /\ pc' = "normalized"
    /\ UNCHANGED <<rawA, rawB, rankVars, storeVars, procVars>>

NormNext == Normalize

SpecNorm == NormInit /\ [][NormNext]_vars

(***************************************************************************)
(* The snapshot store on bounded inputs                                    *)
(***************************************************************************)
MaxStoreRows == 2

StoreAbbrs == {"BOS", "TBL", ""}

\* the finalized lists of at most MaxStoreRows teams: ranks 1..n, any abbreviations
StoreLists ==
    UNION {{[i \in 1..n |->
               [team |-> JStr(""), abbr |-> f[i], gp |-> 0, w |-> 0, l |-> 0, ot |-> 0,
                pts |-> 0, rank |-> i, delta_places |-> JNull]] :
            f \in [1..n -> StoreAbbrs]} : n \in 0..MaxStoreRows}

StoreInit ==
    /\ pc = "ranked lists"
    /\ today \in Dates
    /\ \E a \in StoreLists, p \in StoreLists :
          divs = [d \in DivSet |->
                    CASE d = "Atlantic" -> a
                      [] d = "Pacific" -> p
                      [] d = "Central" -> CHOOSE x \in StoreLists : Len(x) = 1 /\ x[1].abbr = "TBL"
                      [] OTHER -> <<>>]
    /\ file = Absent
    /\ prev = EmptySnapshot
    /\ RankIdle /\ NormIdle /\ ProcIdle

StoreSave ==
    /\ pc = "ranked lists"
    /\ file' = save_current_as_prev(today, divs)
    /\ pc' = "stored"
    /\ UNCHANGED <<today, divs, prev, rankVars, normVars, procVars>>

StoreLoad ==
    /\ pc = "stored"
    /\ prev' = load_prev_positions(file)
    /\ pc' = "loaded"
    /\ UNCHANGED <<today, divs, file, rankVars, normVars, procVars>>

StoreNext == StoreSave \/ StoreLoad

SpecStore == StoreInit /\ [][StoreNext]_vars

(***************************************************************************)
(* The documents the standings source answers with                         *)
(***************************************************************************)
TeamObj(display, abbr) ==
    JObj(<< <<"displayName", JStr(display)>>, <<"abbreviation", JStr(abbr)>> >>)

Entry(team, w, pts) ==
    JObj(<< <<"team", team>>, <<"stats", JList(<<Stat("wins", w), Stat("points", pts)>>)>> >>)

DivNode(field, name, es) ==
    JObj(<< <<field, JStr(name)>>, <<"standings", JObj(<< <<"entries", JList(es)>> >>)>> >>)

Conf(name, ds) == JObj(<< <<"name", JStr(name)>>, <<"children", JList(ds)>> >>)

League(east, west) ==
    JObj(<< <<"name", JStr("National Hockey League")>>,
            <<"children", JList(<<Conf("Eastern Conference", east),
                                  Conf("Western Conference", west)>>)>> >>)

BOS(w, pts) == Entry(TeamObj("Boston Bruins", "BOS"), w, pts)
TOR(w, pts) == Entry(TeamObj("Toronto Maple Leafs", "TOR"), w, pts)
TB(abbr, w, pts) == Entry(TeamObj("Tampa Bay Lightning", abbr), w, pts)
NYR(w, pts) == Entry(TeamObj("New York Rangers", "NYR"), w, pts)
PIT(w, pts) == Entry(TeamObj("Pittsburgh Penguins", "PIT"), w, pts)
UTAH(abbr, w, pts) == Entry(TeamObj("Utah Mammoth", abbr), w, pts)
COL(w, pts) == Entry(TeamObj("Colorado Avalanche", "COL"), w, pts)
LA(abbr, w, pts) == Entry(TeamObj("Los Angeles Kings", abbr), w, pts)
VGK(w, pts) == Entry(TeamObj("Vegas Golden Knights", "VGK"), w, pts)
\* an entry whose team carries neither a name nor an abbreviation
Nameless(w, pts) == Entry(JObj(<<>>), w, pts)

Metro == DivNode("name", "Metropolitan Division", <<NYR(1, 3), PIT(0, 1)>>)
Central == DivNode("name", "Central Division", <<UTAH("UTA", 2, 4), COL(1, 2)>>)
Pacific == DivNode("name", "Pacific Division", <<VGK(1, 2), LA("LA", 1, 2)>>)

\* the league on one day
DocA ==
    League(<<DivNode("name", "Atlantic Division", <<TOR(1, 3), BOS(2, 4), TB("TB", 1, 2)>>),
             Metro>>,
           <<Central, Pacific>>)

\* the league a day later: Toronto has passed Boston, Tampa Bay and Utah come
\* under other abbreviations
DocB ==
    League(<<DivNode("name", "Atlantic Division", <<TOR(2, 5), BOS(2, 4), TB("TBL", 1, 2)>>),
             Metro>>,
           <<DivNode("name", "Central Division", <<UTAH("UTAH", 2, 4), COL(1, 2)>>), Pacific>>)

\* no Pacific division in the document
DocNoPacific ==
    League(<<DivNode("name", "Atlantic Division", <<BOS(2, 4), TOR(1, 3)>>), Metro>>,
           <<Central>>)

\* two teams of a division without name and abbreviation
DocDup ==
    League(<<DivNode("name", "Atlantic Division", <<Nameless(1, 3), BOS(1, 2), Nameless(0, 1)>>)>>,
           <<Central>>)

\* one team of a division without abbreviation: its display name stands in
DocMissingAbbr ==
    League(<<DivNode("name", "Atlantic Division",
                     <<Entry(JObj(<< <<"displayName", JStr("Boston Bruins")>> >>), 2, 4),
                       TOR(1, 3)>>)>>,
           <<Central>>)

\* a flat list of divisions named by shortName and abbreviation
DocFlat ==
    JList(<<DivNode("shortName", "ATLANTIC", <<BOS(2, 4), TOR(1, 3)>>),
            DivNode("abbreviation", "Pacific", <<LA("la", 1, 2)>>),
            DivNode("shortName", "PAC", <<VGK(1, 2)>>)>>)

\* a division nested in a node that matches the same division: the inner one
\* is stored last
DocNested ==
    JObj(<< <<"name", JStr("Central Division")>>,
            <<"standings", JObj(<< <<"entries", JList(<<COL(1, 2)>>)>> >>)>>,
            <<"children", JList(<<DivNode("name", "Central", <<COL(1, 2), UTAH("UHC", 2, 4)>>)>>)>> >>)

\* statistics given as displayValue strings under abbreviation names
DocStrings ==
    League(<<DivNode("name", "Atlantic Division",
                <<JObj(<< <<"team", TeamObj("Boston Bruins", "BOS")>>,
                          <<"stats", JList(<<
                              JObj(<< <<"name", JStr("wins")>>, <<"displayValue", JStr("2")>> >>),
                              JObj(<< <<"abbreviation", JStr("gp")>>, <<"displayValue", JStr("3")>> >>),
                              JObj(<< <<"name", JStr("otLosses")>>, <<"value", JNum(0)>>,
                                      <<"displayValue", JStr("0")>> >>)>>)>> >>)>>)>>,
           <<>>)

\* a league without divisions
DocNoDivs == League(<<>>, <<>>)

\* documents with a field of an unexpected type
DocNameNum ==
    JObj(<< <<"name", JNum(7)>>, <<"children", JList(<<Conf("Eastern Conference", <<Metro>>)>>)>> >>)

DocEntryNotObj ==
    League(<<DivNode("name", "Atlantic Division", <<JNum(1)>>), Metro>>, <<Central>>)

DocStatText ==
    League(<<DivNode("name", "Atlantic Division",
                <<JObj(<< <<"team", TeamObj("Boston Bruins", "BOS")>>,
                          <<"stats", JList(<<
                              JObj(<< <<"name", JStr("wins")>>,
                                      <<"displayValue", JStr("4-1-1")>> >>)>>)>> >>)>>)>>,
           <<Central>>)

DocNumber == JNum(5)

Docs ==
    {DocA, DocB, DocNoPacific, DocDup, DocMissingAbbr, DocFlat, DocNested, DocStrings,
     DocNoDivs, DocNameNum, DocEntryNotObj, DocStatText, DocNumber, JObj(<<>>)}

\* what a candidate URL answers
Responses ==
    {[kind |-> "status"], [kind |-> "exception"], [kind |-> "unparsable"]}
    \cup {[kind |-> "json", body |-> d] : d \in Docs}

\* what PREV_FILE may hold when it was not this program that wrote it
OldSnapshot ==
    JObj(<< <<"date", JStr("2025-01-08")>>,
            <<"divisions", JObj(<< <<"Atlantic", JObj(<< <<"TOR", JNum(1)>>, <<"BOS", JNum(2)>>,
                                                         <<"TBL", JNum(3)>> >>)>>,
                                   <<"Central", JObj(<< <<"COL", JNum(1)>>, <<"UTA", JNum(2)>> >>)>>,
                                   <<"Pacific", JObj(<< <<"LAK", JNum(1)>>, <<"VGK", JNum(2)>> >>)>>
                                >>)>> >>)

EnvFiles ==
    {Absent, Unreadable, Stored(OldSnapshot),
     Stored(JList(<<JNum(1)>>)),
     Stored(JNull),
     Stored(JObj(<< <<"date", JStr("2025-01-08")>>, <<"divisions", JList(<<JNum(1)>>)>> >>)),
     Stored(JObj(<< <<"date", JNum(5)>>,
                    <<"divisions", JObj(<< <<"Atlantic", JObj(<< <<"BOS", JStr("1")>> >>)>> >>)>> >>)),
     Stored(JObj(<< <<"divisions", JObj(<< <<"Atlantic", JObj(<< <<"BOS", JNull>>,
                                                                 <<"TOR", JNum(2)>> >>)>>,
                                           <<"Central", JList(<<JNum(1)>>)>> >>)>> >>))}

(***************************************************************************)
(* A run of the program, and the next one                                  *)
(***************************************************************************)
MaxRuns == 2

\* Standings of every document, computed once
StandingsTable == {<<d, Standings(d)>> : d \in Docs}

fetch_nhl_standings_by_division(resps) ==
    (CHOOSE p \in StandingsTable : p[1] = FirstData(resps))[2]

Init ==
    /\ pc = "idle"
    /\ RankIdle /\ NormIdle /\ StoreIdle /\ ProcIdle

\* the run ends with the exception of step s: main prints it and exits 1
Crash(s) == pc' = "exit" /\ failed' = s /\ exit' = 1

\* build_message up to fetch_nhl_standings_by_division
Fetch ==
    /\ pc = "idle"
    /\ \E date \in Dates, r1 \in Responses :
       \E r2 \in (IF Truthy(_get_json(r1)) THEN {r1} ELSE Responses) :
       \E f \in {fetch_nhl_standings_by_division(<<r1, r2>>)} :
          /\ today' = date
          /\ allFailed' = (r1.kind # "json" /\ r2.kind # "json")
          /\ data' = FirstData(<<r1, r2>>)
          /\ IF f.raised
             THEN Crash("fetch") /\ cur' = cur
             ELSE pc' = "fetched" /\ cur' = f.val /\ UNCHANGED <<failed, exit>>
    /\ UNCHANGED <<divs, file, prev, run, msg, sent, savedIn, tampered, last,
                   rankVars, normVars>>

\* load_prev_positions and the attach_trend_div calls of build_message
LoadTrend ==
    /\ pc = "fetched"
    /\ prev' = load_prev_positions(file)
    /\ \E t \in {Trend(cur, load_prev_positions(file))} :
          IF t.raised
          THEN Crash("trend") /\ divs' = divs
          ELSE pc' = "trended" /\ divs' = t.val /\ UNCHANGED <<failed, exit>>
    /\ UNCHANGED <<today, file, run, allFailed, data, cur, msg, sent, savedIn, tampered,
                   last, rankVars, normVars>>

\* save_current_as_prev and the rendering that ends build_message
Save ==
    /\ pc = "trended"
    /\ file' = save_current_as_prev(today, divs)
    /\ savedIn' = run
    /\ tampered' = FALSE
    /\ \E m \in {Report(today, divs)} :
          IF m.raised
          THEN Crash("render") /\ msg' = msg
          ELSE pc' = "built" /\ msg' = m.val /\ UNCHANGED <<failed, exit>>
    /\ UNCHANGED <<today, divs, prev, run, allFailed, data, cur, sent, last,
                   rankVars, normVars>>

\* send_telegram: skipped without credentials, else the POST, whose failure
\* raise_for_status or the session raises
Send ==
    /\ pc = "built"
    /\ \E o \in {"skipped", "ok", "failed"} :
          /\ sent' = o
          /\ IF o = "failed" THEN Crash("publish")
             ELSE pc' = "exit" /\ exit' = 0 /\ UNCHANGED failed
    /\ UNCHANGED <<storeVars, run, allFailed, data, cur, msg, savedIn, tampered, last,
                   rankVars, normVars>>

\* the scheduler starts the program again
NextRun ==
    /\ pc = "exit"
    /\ run < MaxRuns
    /\ run' = run + 1
    /\ last' = [data |-> data, saved |-> savedIn = run]
    /\ pc' = "idle"
    /\ allFailed' = FALSE /\ data' = JNull /\ cur' = NoData /\ msg' = <<>>
    /\ sent' = "none" /\ failed' = "none" /\ exit' = 0
    /\ divs' = EmptyDivs /\ prev' = EmptySnapshot
    /\ UNCHANGED <<today, file, savedIn, tampered, rankVars, normVars>>

\* between two runs PREV_FILE is removed, damaged or replaced from outside
Tamper ==
    /\ pc = "idle"
    /\ ~tampered
    /\ \E f \in EnvFiles : f # file /\ file' = f
    /\ tampered' = TRUE
    /\ UNCHANGED <<pc, today, divs, prev, run, allFailed, data, cur, msg, sent, failed, exit,
                   savedIn, last, rankVars, normVars>>

Next == Fetch \/ LoadTrend \/ Save \/ Send \/ NextRun \/ Tamper

Spec == Init /\ [][Next]_vars

(***************************************************************************)
(* Properties                                                              *)
(***************************************************************************)
\* a may stand before b: points descending, then wins descending, then display
\* name ascending
MayPrecede(a, b) ==
    \/ a.pts > b.pts
    \/ a.pts = b.pts /\ a.w > b.w
    \/ a.pts = b.pts /\ a.w = b.w /\ StrIndex(a.team.s) <= StrIndex(b.team.s)

Core(r) == <<r.team, r.abbr, r.gp, r.w, r.l, r.ot, r.pts>>

RankedRight(s) ==
    /\ \A i \in 1..Len(s) : s[i].rank = i
    /\ {s[i].rank : i \in 1..Len(s)} = 1..Len(s)
    /\ \A i, j \in 1..Len(s) : i < j => MayPrecede(s[i], s[j])

\* C1: after _entries_to_rows, and again after attach_trend_div, the rank of
\* every record is its 1-based position in the list ordered by points
\* descending, wins descending, display name ascending, so the ranks are
\* exactly 1..N for the N entries given, and ranking the ranked list again
\* leaves every record where it was.
C1_RanksArePositions ==
    /\ (pc = "rows" /\ ~rows.raised) =>
        /\ Len(rows.val) = Len(entries)
        /\ RankedRight(rows.val)
        /\ \A i \in 1..Len(entries) :
              Cardinality({j \in 1..Len(entries) : RowOf(entries[j]) = RowOf(entries[i])})
              = Cardinality({j \in 1..Len(rows.val) :
                                Core(rows.val[j]) = Core(RowOf(entries[i]).val)})
    /\ (pc = "ranked" /\ ~ranked.raised) =>
        /\ Len(ranked.val) = Len(rows.val)
        /\ RankedRight(ranked.val)
        /\ \A i \in 1..Len(rows.val) :
              Core(ranked.val[i]) = Core(rows.val[i]) /\ ranked.val[i].rank = rows.val[i].rank

\* three teams level on points, the first ahead on wins, the other two level on
\* wins too and told apart by name only
C1_Witness ==
    /\ pc = "ranked" /\ ~ranked.raised /\ Len(ranked.val) = 3
    /\ ranked.val[1].pts = ranked.val[3].pts
    /\ ranked.val[1].w > ranked.val[2].w
    /\ ranked.val[2].w = ranked.val[3].w
    /\ ranked.val[2].team # ranked.val[3].team

\* C2: attach_trend_div gives every ranked team the delta (previous rank -
\* current rank) when its abbreviation is a key of the previous rank map, and
\* None when it is not.
C2_TrendDelta ==
    (pc = "ranked" /\ ~ranked.raised) =>
        \A i \in 1..Len(ranked.val) :
            LET r == ranked.val[i] IN
            /\ Has(y_positions, r.abbr) =>
                  r.delta_places = JNum(Get(y_positions, r.abbr).n - r.rank)
            /\ ~Has(y_positions, r.abbr) => r.delta_places = JNull

\* previous {TOR: 1, BOS: 2, TBL: 3}, now BOS first, TOR second, TBL third:
\* BOS +1, TOR -1, TBL 0
C2_Witness ==
    /\ pc = "ranked" /\ ~ranked.raised /\ Len(ranked.val) = 3
    /\ y_positions = JObj(<< <<"BOS", JNum(2)>>, <<"TOR", JNum(1)>>, <<"TBL", JNum(3)>> >>)
    /\ ranked.val[1].abbr = "BOS" /\ ranked.val[1].delta_places = JNum(1)
    /\ ranked.val[2].abbr = "TOR" /\ ranked.val[2].delta_places = JNum(-1)
    /\ ranked.val[3].abbr = "TBL" /\ ranked.val[3].delta_places = JNum(0)

\* a team the previous map does not hold has no delta
C2_WitnessAbsent ==
    /\ pc = "ranked" /\ ~ranked.raised /\ Len(ranked.val) = 2
    /\ ~Has(y_positions, ranked.val[1].abbr) /\ ranked.val[1].delta_places = JNull
    /\ Has(y_positions, ranked.val[2].abbr)

\* C3: in every run the snapshot is overwritten with this run's date and rank
\* maps before the publish step is attempted and whatever its outcome: once
\* the report is built, and when the run has ended, PREV_FILE holds what this
\* run saved, and a failed publish ends the run with a non-zero exit status.
C3_SnapshotOverwrittenEveryRun ==
    /\ pc \in {"built", "exit"} =>
          /\ savedIn = run
          /\ file = save_current_as_prev(today, divs)
    /\ sent = "failed" => exit # 0

\* C4 as stated: when a run fetches the document the run before it fetched and
\* reads the snapshot that run saved, every team of every division has the
\* delta 0.
C4_RerunAllZero ==
    (pc = "trended" /\ run >= 2 /\ last.saved /\ ~tampered /\ data = last.data) =>
        \A d \in DivSet : \A i \in 1..Len(divs[d]) : divs[d][i].delta_places = JNum(0)

\* the positions after i in rws that hold the abbreviation of position i
SameAbbrLater(rws, i) == {j \in (i + 1)..Len(rws) : rws[j].abbr = rws[i].abbr}

Last(S) == CHOOSE j \in S : \A k \in S : k <= j

\* C4 as amended: when a run fetches the document the run before it fetched
\* and reads the snapshot that run saved, every team has the delta 0, except a
\* team whose abbreviation is also that of a team ranked below it in its
\* division: its delta is the rank of the lowest such team minus its own.
C4_RerunZeroUnlessShared ==
    (pc = "trended" /\ run >= 2 /\ last.saved /\ ~tampered /\ data = last.data) =>
        \A d \in DivSet : \A i \in 1..Len(divs[d]) :
            divs[d][i].delta_places =
                JNum(IF SameAbbrLater(divs[d], i) = {} THEN 0
                     ELSE Last(SameAbbrLater(divs[d], i)) - divs[d][i].rank)

\* the second of two runs on the same document: the two teams without
\* abbreviation share the key "", the first of them moves by +2, the other
\* teams by 0
C4_Witness ==
    /\ pc = "trended" /\ run >= 2 /\ last.saved /\ ~tampered /\ data = last.data
    /\ data = DocDup
    /\ Len(divs["Atlantic"]) = 3
    /\ divs["Atlantic"][1].abbr = "" /\ divs["Atlantic"][1].delta_places = JNum(2)
    /\ divs["Atlantic"][2].abbr = "BOS" /\ divs["Atlantic"][2].delta_places = JNum(0)
    /\ divs["Atlantic"][3].abbr = "" /\ divs["Atlantic"][3].delta_places = JNum(0)

\* C5: whatever the document fetched and whatever PREV_FILE holds, a run ends
\* with a non-zero exit status only when the publish call was made and failed.
C5_OnlyPublishFails ==
    (pc = "exit" /\ exit # 0) => sent = "failed"

\* the shape {date: str, divisions: {division: {abbreviation: int}}}
WellShaped(pv) ==
    /\ IsStr(pv.date)
    /\ IsObj(pv.divisions)
    /\ \A i \in 1..Len(pv.divisions.o) :
          /\ IsObj(pv.divisions.o[i][2])
          /\ \A j \in 1..Len(pv.divisions.o[i][2].o) : IsNum(pv.divisions.o[i][2].o[j][2])

\* C6: what load_prev_positions returned is the empty snapshot or has the
\* shape of a snapshot, and no run ends in the trend computation.
C6_LoadRejectsCorrupt ==
    /\ WellShaped(prev)
    /\ failed # "trend"

\* the title lines of a report
Titles(m) == SelectSeq(m, LAMBDA x : x.kind = "title")

\* C7: a run in which no candidate URL gave a document ends with a report
\* built: the header, the four division titles in order with no team line,
\* and the footer.
C7_AllFailedGivesEmptyReport ==
    (allFailed /\ pc = "exit") =>
        /\ failed \in {"none", "publish"}
        /\ Len(msg) > 0
        /\ msg[1].kind = "head" /\ msg[Len(msg)].kind = "info"
        /\ Titles(msg) = <<[kind |-> "title", conf |-> "east", text |-> DIV_RU["Atlantic"]],
                           [kind |-> "title", conf |-> "east", text |-> DIV_RU["Metropolitan"]],
                           [kind |-> "title", conf |-> "west", text |-> DIV_RU["Central"]],
                           [kind |-> "title", conf |-> "west", text |-> DIV_RU["Pacific"]]>>
        /\ \A i \in 1..Len(msg) : msg[i].kind # "team"

\* C8: two raw abbreviations of the tables that stand for the same team
\* normalize to the same string.
C8_SameTeamSameAbbr ==
    (pc = "normalized" /\ TeamOf(rawA) = TeamOf(rawB)) => normA = normB

\* C9: load_prev_positions after save_current_as_prev returns the ISO date
\* saved, the four divisions and no other, and for every division the map
\* whose keys are the abbreviations of its list, each with the rank of the
\* (last) team that carries it.
C9_SaveLoadRoundTrip ==
    pc = "loaded" =>
        /\ prev.date = JStr(isoformat(today))
        /\ IsObj(prev.divisions)
        /\ Keys(prev.divisions) = DivSet
        /\ Len(prev.divisions.o) = Cardinality(DivSet)
        /\ \A d \in DivSet :
              /\ IsObj(Get(prev.divisions, d))
              /\ Keys(Get(prev.divisions, d)) = {divs[d][i].abbr : i \in 1..Len(divs[d])}
              /\ Len(Get(prev.divisions, d).o) = Cardinality(Keys(Get(prev.divisions, d)))
              /\ \A i \in 1..Len(divs[d]) :
                    SameAbbrLater(divs[d], i) = {} =>
                        Get(Get(prev.divisions, d), divs[d][i].abbr) = JNum(divs[d][i].rank)

\* two teams in Atlantic, one in Pacific and in Central, none in Metropolitan
C9_Witness ==
    /\ pc = "loaded"
    /\ today.d = 10 /\ prev.date = JStr("2025-01-10")
    /\ Len(divs["Atlantic"]) = 2 /\ Len(divs["Pacific"]) = 1
    /\ Get(prev.divisions, "Atlantic") = JObj(<< <<"BOS", JNum(1)>>, <<"TBL", JNum(2)>> >>)
    /\ Get(prev.divisions, "Central") = JObj(<< <<"TBL", JNum(1)>> >>)
    /\ Get(prev.divisions, "Metropolitan") = JObj(<<>>)

\* what fetch_nhl_standings_by_division returned in the run before this one
LastCur == fetch_nhl_standings_by_division(<<[kind |-> "json", body |-> last.data]>>)

\* C10: a run that found no team of a division ends with PREV_FILE
\* overwritten and an empty rank map stored for that division, and in the run
\* after it every team of that division has an unknown delta.
C10_EmptyFetchErasesBaseline ==
    \A d \in DivSet :
        /\ (pc = "exit" /\ failed # "fetch" /\ RowsOf(Conference(cur, d), d) = <<>>) =>
              /\ savedIn = run
              /\ file.k = "json"
              /\ Get(Get(file.j, "divisions"), d) = JObj(<<>>)
        /\ (/\ pc = "trended" /\ run >= 2 /\ ~tampered
            /\ ~LastCur.raised /\ RowsOf(Conference(LastCur.val, d), d) = <<>>) =>
              \A i \in 1..Len(divs[d]) : divs[d][i].delta_places = JNull

====
